---- MODULE Spec2Model ----
(***************************************************************************)
(* Model of app.py: a diary and reward-points tracker over one SQLite      *)
(* database with three tables (diary_entries, tasks, points_log), the      *)
(* data-access functions over them, and the pages of main() run by one or  *)
(* two Streamlit sessions that share the cached connection.                *)
(*                                                                         *)
(* A table is the sequence of its rows in rowid order.  Timestamps are     *)
(* whole seconds: datetime.now(JST).isoformat(timespec="seconds") drops    *)
(* everything below one second.                                            *)
(***************************************************************************)
EXTENDS Integers, Sequences, FiniteSets, TLC

VARIABLES
    schema,         \* TRUE once the CREATE TABLE IF NOT EXISTS statements ran
    diary_entries,  \* table diary_entries
    tasks,          \* table tasks
    points_log,     \* table points_log
    now,            \* the wall clock, in whole seconds of UTC
    sess,           \* per session: the position and locals of its run of main()
    argSum,         \* history: sum of the points arguments of all log_points calls
    addCalls,       \* history: number of add_task calls
    activeAtWrite   \* history: per points_log row, whether the item it names
                    \* was the name of an active task when the row was written

vars == <<schema, diary_entries, tasks, points_log, now, sess, argSum, addCalls,
          activeAtWrite>>

hist == <<argSum, addCalls, activeAtWrite>>

tables == <<diary_entries, tasks, points_log>>

----------------------------------------------------------------------------
(* Bounds of the model *)

MaxRows == 3        \* rows inserted after the seed, all tables together
MaxClock == 1       \* seconds the clock advances

----------------------------------------------------------------------------
(* Values *)

NULL == "NULL"      \* Python None / SQL NULL

JstOffset == 32400  \* Asia/Tokyo is UTC+09:00, in seconds

\* Mood texts of MOOD_OPTIONS that the model uses: "nashi" is the text of
\* the entry ("なし", no mood), "iikanji" the text of the default ("いい感じ").
MOOD_OPTIONS == {"nashi", "iikanji"}

\* Arguments of the direct calls: (entry_date, entry_time, mood, content),
\* (action_type, task_or_reason, points, note), (name, point_value), task ids
\* (a seeded task, the first added task, no task) and limits.
DiaryArgs ==
    { <<"2024-01-02", NULL, "iikanji", "walk">>,
      <<"2024-01-01", "07:00:00", "nashi", "">> }
LogArgs ==
    { <<"earn", "python", 2, "">>,
      <<"spend", "beer", -1, "">>,
      <<"earn", "undo", 0, "memo">> }
TaskArgs == { <<"read", 3>> }
TaskIdArgs == {1, 5, 99}
Limits == 0..(MaxRows + 1)

Min(a, b) == IF a < b THEN a ELSE b

----------------------------------------------------------------------------
(* init_db *)

\* The four default tasks, their names in Latin letters.
default_tasks ==
    << [name |-> "nikki", point_value |-> 1],
       [name |-> "python", point_value |-> 3],
       [name |-> "undo", point_value |-> 3],
       [name |-> "hayaoki", point_value |-> 2] >>

\* INTEGER PRIMARY KEY AUTOINCREMENT: one more than the largest id ever used;
\* no row is ever deleted, so that is the id of the last row.
NextId(table) == IF Len(table) = 0 THEN 1 ELSE table[Len(table)].id + 1

\* INSERT INTO tasks (name, point_value, is_active) VALUES (?, ?, 1)
InsertTask(t, name, point_value) ==
    Append(t, [id |-> NextId(t), name |-> name,
               point_value |-> point_value, is_active |-> 1])

RECURSIVE InsertTasks(_, _)
\* cur.executemany(INSERT ..., rows)
InsertTasks(t, rows) ==
    IF Len(rows) = 0 THEN t
    ELSE InsertTasks(InsertTask(t, rows[1].name, rows[1].point_value), Tail(rows))

\* Mutant of SeedTasks: the seed is inserted without the test of the count.
SeedTasks_NoCheck(t, count) == InsertTasks(t, default_tasks)

\* The seeding half of init_db, given the COUNT(*) it read.
SeedTasks(t, count) == IF count = 0 THEN InsertTasks(t, default_tasks) ELSE t

\* init_db's effect on table tasks.
InitDbTasks(t) == SeedTasks(t, Len(t))

----------------------------------------------------------------------------
(* Timestamps *)

\* datetime.now(JST).isoformat(timespec="seconds"): the local time of Tokyo,
\* as the number of seconds it denotes.
NowJst(clock) == clock + JstOffset

\* SQLite datetime(created_at): the timestamp with its +09:00 offset applied,
\* in UTC.
datetime(created_at) == created_at - JstOffset

----------------------------------------------------------------------------
(* Diary *)

\* Mutant of SaveDiaryRows: an entry of the same date is overwritten.
SaveDiaryRows_Overwrite(d, entry_date, entry_time, mood, content, clock) ==
    LET row(id) == [id |-> id, entry_date |-> entry_date, entry_time |-> entry_time,
                    mood |-> mood, content |-> content, created_at |-> NowJst(clock)]
    IN IF \E i \in 1..Len(d) : d[i].entry_date = entry_date
       THEN [i \in 1..Len(d) |->
               IF d[i].entry_date = entry_date THEN row(d[i].id) ELSE d[i]]
       ELSE Append(d, row(NextId(d)))

SaveDiaryRows(d, entry_date, entry_time, mood, content, clock) ==
    Append(d, [id |-> NextId(d),
               entry_date |-> entry_date,
               entry_time |-> IF entry_time # NULL THEN entry_time ELSE NULL,
               mood |-> mood,
               content |-> content,
               created_at |-> NowJst(clock)])

\* Permutations of 1..n, as sequences.
Perms(n) == {p \in [1..n -> 1..n] : \A i, j \in 1..n : i # j => p[i] # p[j]}

\* Mutant of OrderByCreatedDesc: ORDER BY entry_date DESC, the date entered.
OrderByEntryDateDesc(table) ==
    LET day(r) == IF r.entry_date = "2024-01-01" THEN 1 ELSE 2
    IN { [i \in 1..Len(table) |-> table[p[i]]] :
           p \in { q \in Perms(Len(table)) :
                     \A i, j \in 1..Len(table) :
                        i < j => day(table[q[i]]) >= day(table[q[j]]) } }

\* ORDER BY datetime(created_at) DESC: every order of the rows that the sort
\* key allows.  SQL leaves the order of rows with equal keys unspecified.
OrderByCreatedDesc(table) ==
    { [i \in 1..Len(table) |-> table[p[i]]] :
        p \in { q \in Perms(Len(table)) :
                  \A i, j \in 1..Len(table) :
                     i < j => datetime(table[q[i]].created_at)
                                >= datetime(table[q[j]].created_at) } }

\* LIMIT ?: a negative limit is no limit.
Limit(rows, limit) ==
    IF limit < 0 THEN rows ELSE SubSeq(rows, 1, Min(limit, Len(rows)))

\* The rows get_recent_diaries selects, before the column list is applied.
RecentDiaryRows(d, limit) == { Limit(s, limit) : s \in OrderByCreatedDesc(d) }

DiaryColumns(r) ==
    [entry_date |-> r.entry_date, entry_time |-> r.entry_time, mood |-> r.mood,
     content |-> r.content, created_at |-> r.created_at]

\* The possible results of get_recent_diaries(conn, limit).
get_recent_diaries(d, limit) ==
    { [i \in 1..Len(s) |-> DiaryColumns(s[i])] : s \in RecentDiaryRows(d, limit) }

----------------------------------------------------------------------------
(* Points *)

\* Mutant of LogPointsRows: a row for the item of the last row is merged
\* into that row.
LogPointsRows_Merge(log, action_type, task_or_reason, points, note, clock) ==
    IF Len(log) > 0 /\ log[Len(log)].task_or_reason = task_or_reason
    THEN [log EXCEPT ![Len(log)].points = @ + points,
                     ![Len(log)].created_at = NowJst(clock)]
    ELSE Append(log, [id |-> NextId(log), action_type |-> action_type,
                      task_or_reason |-> task_or_reason, points |-> points,
                      note |-> note, created_at |-> NowJst(clock)])

LogPointsRows(log, action_type, task_or_reason, points, note, clock) ==
    Append(log, [id |-> NextId(log),
                 action_type |-> action_type,
                 task_or_reason |-> task_or_reason,
                 points |-> points,
                 note |-> note,
                 created_at |-> NowJst(clock)])

RECURSIVE SumPoints(_)
SumPoints(log) ==
    IF Len(log) = 0 THEN 0 ELSE log[1].points + SumPoints(Tail(log))

\* SUM(points): SQL NULL over no rows.  An SQL value is <<v>>, SQL NULL <<>>.
SqlSum(log) == IF Len(log) = 0 THEN <<>> ELSE <<SumPoints(log)>>

\* COALESCE(x, y)
Coalesce(x, y) == IF x # <<>> THEN x[1] ELSE y

\* Mutant of get_total_points: only the rows of type "earn" are summed.
get_total_points_EarnOnly(log) ==
    SumPoints(SelectSeq(log, LAMBDA r : r.action_type = "earn"))

get_total_points(log) ==
    LET total == Coalesce(SqlSum(log), 0)
    IN IF total # 0 THEN total ELSE 0          \* total or 0

LogColumns(r) ==
    [action_type |-> r.action_type, task_or_reason |-> r.task_or_reason,
     points |-> r.points, note |-> r.note, created_at |-> r.created_at]

\* The rows get_points_history selects, before the column list is applied.
\* The limit is <<n>>, or <<>> for None: the query without LIMIT.
HistoryRows(log, limit) ==
    { IF limit # <<>> THEN Limit(o, limit[1]) ELSE o : o \in OrderByCreatedDesc(log) }

\* The possible results of get_points_history(conn, limit).
get_points_history(log, limit) ==
    { [i \in 1..Len(s) |-> LogColumns(s[i])] : s \in HistoryRows(log, limit) }

----------------------------------------------------------------------------
(* Tasks *)

\* SELECT id, name, point_value FROM tasks WHERE is_active = 1 ORDER BY id
get_active_tasks(t) ==
    LET act == SelectSeq(t, LAMBDA r : r.is_active = 1)
    IN [i \in 1..Len(act) |->
          [id |-> act[i].id, name |-> act[i].name,
           point_value |-> act[i].point_value]]

\* SELECT id, name, point_value, is_active FROM tasks ORDER BY id
get_all_tasks(t) == t

\* Whether name is the name of a row that get_active_tasks returns.
IsActiveName(t, name) ==
    \E i \in 1..Len(get_active_tasks(t)) : get_active_tasks(t)[i].name = name

AddTaskRows(t, name, point_value) == InsertTask(t, name, point_value)

\* Mutant of UpdateTaskActive: the flag is flipped, whatever the value given.
UpdateTaskActive_Toggle(t, task_id, is_active) ==
    [i \in 1..Len(t) |->
       IF t[i].id = task_id THEN [t[i] EXCEPT !.is_active = 1 - @] ELSE t[i]]

\* UPDATE tasks SET is_active = ? WHERE id = ?
UpdateTaskActive(t, task_id, is_active) ==
    [i \in 1..Len(t) |->
       IF t[i].id = task_id
       THEN [t[i] EXCEPT !.is_active = IF is_active THEN 1 ELSE 0]
       ELSE t[i]]

----------------------------------------------------------------------------
(* The data-access functions, called one at a time *)

Sessions == {"s1", "s2"}

\* A session between two runs of the script.
idle == [pc |-> "idle", count |-> 0, total_points |-> 0,
         tasks |-> <<>>, all_tasks |-> <<>>]

Init ==
    /\ schema = FALSE
    /\ diary_entries = <<>>
    /\ tasks = <<>>
    /\ points_log = <<>>
    /\ now = 0
    /\ sess = [s \in Sessions |-> idle]
    /\ argSum = 0
    /\ addCalls = 0
    /\ activeAtWrite = <<>>

\* Rows inserted by calls so far.
Rows == Len(diary_entries) + Len(points_log) + addCalls

\* The clock advances by a second.
Tick ==
    /\ now < MaxClock
    /\ now' = now + 1
    /\ UNCHANGED <<schema, tables, sess, hist>>

init_db ==
    /\ schema' = TRUE
    /\ tasks' = InitDbTasks(tasks)
    /\ UNCHANGED <<diary_entries, points_log, now, sess, hist>>

save_diary(entry_date, entry_time, mood, content) ==
    /\ schema
    /\ Rows < MaxRows
    /\ diary_entries' =
         SaveDiaryRows(diary_entries, entry_date, entry_time, mood, content, now)
    /\ UNCHANGED <<schema, tasks, points_log, now, sess, hist>>

log_points(action_type, task_or_reason, points, note) ==
    /\ schema
    /\ Rows < MaxRows
    /\ points_log' =
         LogPointsRows(points_log, action_type, task_or_reason, points, note, now)
    /\ argSum' = argSum + points
    /\ activeAtWrite' = Append(activeAtWrite, IsActiveName(tasks, task_or_reason))
    /\ UNCHANGED <<schema, diary_entries, tasks, now, sess, addCalls>>

add_task(name, point_value) ==
    /\ schema
    /\ Rows < MaxRows
    /\ tasks' = AddTaskRows(tasks, name, point_value)
    /\ addCalls' = addCalls + 1
    /\ UNCHANGED <<schema, diary_entries, points_log, now, sess, argSum, activeAtWrite>>

update_task_active(task_id, is_active) ==
    /\ schema
    /\ tasks' = UpdateTaskActive(tasks, task_id, is_active)
    /\ UNCHANGED <<schema, diary_entries, points_log, now, sess, hist>>

SaveDiaryCall == \E a \in DiaryArgs : save_diary(a[1], a[2], a[3], a[4])

LogPointsCall == \E a \in LogArgs : log_points(a[1], a[2], a[3], a[4])

AddTaskCall == \E a \in TaskArgs : add_task(a[1], a[2])

UpdateTaskActiveCall ==
    \E id \in TaskIdArgs, v \in BOOLEAN : update_task_active(id, v)

Next ==
    \/ Tick
    \/ init_db
    \/ SaveDiaryCall
    \/ LogPointsCall
    \/ AddTaskCall
    \/ UpdateTaskActiveCall

Spec == Init /\ [][Next]_vars

----------------------------------------------------------------------------
(* main(): one run of the script per session.  Every statement on the      *)
(* shared connection is one step; a run's widget values are chosen at the  *)
(* step that first uses them.                                              *)

\* str.strip() on the texts the model enters.
Strip(x) == CASE x = " " -> "" [] x = " read " -> "read" [] OTHER -> x

\* Values entered in the forms: the diary form (date, time, mood, content),
\* the points and reason fields, the new-task form (name, points), and the
\* tasks whose toggle button is clicked and the tasks chosen in the select box.
DiaryForm ==
    { <<"2024-01-01", "07:00:00", "nashi", " ">>,
      <<"2024-01-02", "07:00:00", "iikanji", "">> }
EarnPoints == {5}
UsePoints == {1, 5}
Reasons == {" "}
TaskForm == { <<" read ", 3>>, <<" ", 1>> }
ToggleIds == {1, 5}
ChoiceIds == {1, 5}

Pages == {"diary", "earn", "spend", "history", "tasks"}

Finish(s) == [sess EXCEPT ![s] = idle]

\* conn = get_connection(); init_db(conn) up to SELECT COUNT(*) FROM tasks.
StartRun(s) ==
    /\ sess[s].pc = "idle"
    /\ sess' = [sess EXCEPT ![s].pc = "seed", ![s].count = Len(tasks)]
    /\ schema' = TRUE
    /\ UNCHANGED <<tables, now, hist>>

\* init_db(conn) from the test of the count to the commit.
SeedRun(s) ==
    /\ sess[s].pc = "seed"
    /\ tasks' = SeedTasks(tasks, sess[s].count)
    /\ sess' = [sess EXCEPT ![s].pc = "total", ![s].count = 0]
    /\ UNCHANGED <<schema, diary_entries, points_log, now, hist>>

\* total_points = get_total_points(conn), then the branch on the page that
\* is selected in the sidebar.
ReadTotal(s, pages) ==
    /\ sess[s].pc = "total"
    /\ \E page \in pages :
         sess' = [sess EXCEPT ![s].pc = page,
                              ![s].total_points = get_total_points(points_log)]
    /\ UNCHANGED <<schema, tables, now, hist>>

\* Page 1: the diary form and its save button.
DiaryPage(s) ==
    /\ sess[s].pc = "diary"
    /\ \E f \in DiaryForm, button \in BOOLEAN :
         /\ f[3] \in MOOD_OPTIONS
         /\ IF button /\ ~(Strip(f[4]) = "" /\ f[3] = "nashi")
            THEN /\ Rows < MaxRows
                 /\ diary_entries' =
                      SaveDiaryRows(diary_entries, f[1], f[2], f[3], f[4], now)
            ELSE UNCHANGED diary_entries
    /\ sess' = Finish(s)
    /\ UNCHANGED <<schema, tasks, points_log, now, hist>>

\* Page 2: tasks = get_active_tasks(conn).
EarnPage(s) ==
    /\ sess[s].pc = "earn"
    /\ LET active == get_active_tasks(tasks)
       IN sess' = IF Len(active) = 0 THEN Finish(s)
                  ELSE [sess EXCEPT ![s].pc = "earn_form", ![s].tasks = active]
    /\ UNCHANGED <<schema, tables, now, hist>>

\* Page 2: the select box over the names of tasks, the points field
\* (min_value=1) and the button.
EarnForm(s) ==
    /\ sess[s].pc = "earn_form"
    /\ \E i \in 1..Len(sess[s].tasks), points \in EarnPoints, button \in BOOLEAN :
         LET task_choice == sess[s].tasks[i].name
         IN /\ sess[s].tasks[i].id \in ChoiceIds
            /\ IF button
               THEN /\ Rows < MaxRows
                    /\ points_log' =
                         LogPointsRows(points_log, "earn", task_choice, points, "", now)
                    /\ argSum' = argSum + points
                    /\ activeAtWrite' =
                         Append(activeAtWrite, IsActiveName(tasks, task_choice))
               ELSE UNCHANGED <<points_log, argSum, activeAtWrite>>
    /\ sess' = Finish(s)
    /\ UNCHANGED <<schema, diary_entries, tasks, now, addCalls>>

\* Mutant of SpendAllowed: the balance is not checked.
SpendAllowed_NoCheck(use_points, total_points) == TRUE

\* Whether the spend page accepts use_points against the balance it read.
SpendAllowed(use_points, total_points) == ~(use_points > total_points)

\* Page 3: the reason and points fields (min_value=1) and the button.
SpendPage(s) ==
    /\ sess[s].pc = "spend"
    /\ \E use_points \in UsePoints, reason \in Reasons, button \in BOOLEAN :
         IF button /\ SpendAllowed(use_points, sess[s].total_points)
         THEN LET label == IF Strip(reason) # "" THEN Strip(reason)
                           ELSE "riyuunashi"
              IN /\ Rows < MaxRows
                 /\ points_log' =
                      LogPointsRows(points_log, "spend", label, 0 - use_points, "", now)
                 /\ argSum' = argSum + (0 - use_points)
                 /\ activeAtWrite' =
                      Append(activeAtWrite, IsActiveName(tasks, label))
         ELSE UNCHANGED <<points_log, argSum, activeAtWrite>>
    /\ sess' = Finish(s)
    /\ UNCHANGED <<schema, diary_entries, tasks, now, addCalls>>

\* Page 4: get_recent_diaries(conn, limit=10) and get_points_history(conn)
\* are read and shown.
HistoryPage(s) ==
    /\ sess[s].pc = "history"
    /\ sess' = Finish(s)
    /\ UNCHANGED <<schema, tables, now, hist>>

\* Page 5: all_tasks = get_all_tasks(conn).
TaskPage(s) ==
    /\ sess[s].pc = "tasks"
    /\ sess' = [sess EXCEPT ![s].pc = "task_form",
                            ![s].all_tasks = get_all_tasks(tasks)]
    /\ UNCHANGED <<schema, tables, now, hist>>

\* Page 5: a toggle button of the list is clicked.
TaskToggle(s) ==
    /\ sess[s].pc = "task_form"
    /\ \E i \in 1..Len(sess[s].all_tasks) :
         LET t == sess[s].all_tasks[i]
         IN /\ t.id \in ToggleIds
            /\ tasks' = UpdateTaskActive(tasks, t.id, ~(t.is_active # 0))
    /\ sess' = Finish(s)
    /\ UNCHANGED <<schema, diary_entries, points_log, now, hist>>

\* Page 5: the new-task form and its button, or no button at all.
TaskAdd(s) ==
    /\ sess[s].pc = "task_form"
    /\ \E f \in TaskForm, button \in BOOLEAN :
         IF button /\ Strip(f[1]) # ""
         THEN /\ Rows < MaxRows
              /\ tasks' = AddTaskRows(tasks, Strip(f[1]), f[2])
              /\ addCalls' = addCalls + 1
         ELSE UNCHANGED <<tasks, addCalls>>
    /\ sess' = Finish(s)
    /\ UNCHANGED <<schema, diary_entries, points_log, now, argSum, activeAtWrite>>

\* The steps of a run up to the branch on the page.
Prologue(s, pages) == StartRun(s) \/ SeedRun(s) \/ ReadTotal(s, pages)

EarnSteps(s) == EarnPage(s) \/ EarnForm(s)

TaskSteps(s) == TaskPage(s) \/ TaskToggle(s) \/ TaskAdd(s)

Run(s) ==
    \/ Prologue(s, Pages)
    \/ DiaryPage(s)
    \/ EarnSteps(s)
    \/ SpendPage(s)
    \/ HistoryPage(s)
    \/ TaskSteps(s)

\* One session: the single-user deployment.
NextMain == Tick \/ Run("s1")

SpecMain == Init /\ [][NextMain]_vars

\* Two sessions on the shared connection, their statements interleaved, on
\* the pages that earn and spend points and that switch tasks on and off.
PointPages == {"earn", "spend", "tasks"}

NextConc ==
    \/ Tick
    \/ \E s \in Sessions :
          Prologue(s, PointPages) \/ EarnSteps(s) \/ SpendPage(s) \/ TaskSteps(s)

SpecConc == Init /\ [][NextConc]_vars

----------------------------------------------------------------------------
(* Properties *)

IsPrefix(a, b) == Len(a) <= Len(b) /\ SubSeq(b, 1, Len(a)) = a

\* C1: get_total_points returns the sum of the points arguments of all
\* log_points calls made so far, 0 when there was none; no other operation
\* changes it.
C1_TotalIsSumOfLogged == get_total_points(points_log) = argSum

\* Three calls, with a positive, a negative and a zero argument.
C1_Witness ==
    /\ Len(points_log) = 3
    /\ argSum = 1
    /\ \E i, j \in 1..3 : points_log[i].points > 0 /\ points_log[j].points < 0

\* C2: in one session, the balance is never negative.
C2_BalanceNeverNegative == get_total_points(points_log) >= 0

\* The session earned 5 and then spent 1 and spent 1 again: the second
\* spend is accepted against the balance of 4.
C2_Witness ==
    /\ Len(points_log) = 3
    /\ points_log[1].action_type = "earn"
    /\ points_log[2].action_type = "spend"
    /\ points_log[3].action_type = "spend"
    /\ get_total_points(points_log) = 3

\* C3: with a balance of 5 and two sessions that each spend 5, at most one
\* of the two spends is written: the ledger never holds two spends of 5 in
\* a row after a balance of 5.
C3_AtMostOneSpendOfFive ==
    ~ \E k \in 0..(Len(points_log) - 2) :
        /\ get_total_points(SubSeq(points_log, 1, k)) = 5
        /\ points_log[k + 1].action_type = "spend"
        /\ points_log[k + 1].points = -5
        /\ points_log[k + 2].action_type = "spend"
        /\ points_log[k + 2].points = -5

\* C4: every save_diary call appends one row, with a fresh id and the
\* timestamp of the call, holding the arguments, and leaves the rows that
\* were there unchanged.
C4_SaveDiaryAppendOnly ==
    [][\A a \in DiaryArgs :
         save_diary(a[1], a[2], a[3], a[4]) =>
           LET n == Len(diary_entries) IN
           /\ Len(diary_entries') = n + 1
           /\ SubSeq(diary_entries', 1, n) = diary_entries
           /\ \A i \in 1..n : diary_entries[i].id # diary_entries'[n + 1].id
           /\ diary_entries'[n + 1].created_at = NowJst(now)
           /\ DiaryColumns(diary_entries'[n + 1]) =
                [entry_date |-> a[1], entry_time |-> a[2], mood |-> a[3],
                 content |-> a[4], created_at |-> NowJst(now)]]_vars

\* Two calls with the same arguments in the same second left two entries,
\* equal in every column but the id, that get_recent_diaries both returns.
C4_Witness ==
    /\ Len(diary_entries) = 2
    /\ DiaryColumns(diary_entries[1]) = DiaryColumns(diary_entries[2])
    /\ diary_entries[1].id # diary_entries[2].id
    /\ \A r \in get_recent_diaries(diary_entries, 2) :
         r = <<DiaryColumns(diary_entries[1]), DiaryColumns(diary_entries[2])>>

\* C5: for every n >= 0, get_recent_diaries(n) returns min(n, number of
\* entries) entries in non-increasing order of created_at, no entry left out
\* was created later than one returned, and nothing is returned when there
\* is no entry.
C5_RecentDiaries ==
    \A n \in Limits :
      /\ RecentDiaryRows(diary_entries, n) # {}
      /\ \A r \in get_recent_diaries(diary_entries, n) :
           /\ Len(r) = Min(n, Len(diary_entries))
           /\ \A i, j \in 1..Len(r) : i < j => r[i].created_at >= r[j].created_at
           /\ Len(diary_entries) = 0 => r = <<>>
      /\ \A r \in RecentDiaryRows(diary_entries, n) :
           \A i \in 1..Len(diary_entries) :
             (\A k \in 1..Len(r) : r[k].id # diary_entries[i].id) =>
               \A k \in 1..Len(r) : diary_entries[i].created_at <= r[k].created_at

\* Three entries, the first written a second before the other two and with
\* the later date: a limit of 2 leaves the first out.
C5_Witness ==
    /\ Len(diary_entries) = 3
    /\ diary_entries[1].created_at < diary_entries[2].created_at
    /\ diary_entries[2].created_at = diary_entries[3].created_at
    /\ diary_entries[1].entry_date = "2024-01-02"
    /\ diary_entries[3].entry_date = "2024-01-01"
    /\ diary_entries[3].entry_time # NULL

\* C6: after two log_points calls, get_points_history(1) returns exactly the
\* row of the second call, also when both rows have the same created_at.
C6_HistoryOneIsLatest ==
    Len(points_log) >= 2 =>
      \A r \in get_points_history(points_log, <<1>>) :
        r = <<LogColumns(points_log[Len(points_log)])>>

\* C7: update_task_active(id, v) sets is_active of the task with that id
\* to v and changes nothing else; a second call with the same arguments
\* changes nothing; a call with an id that no task has changes nothing.
C7_UpdateTaskActiveIdempotentLocal ==
    [][\A id \in TaskIdArgs, v \in BOOLEAN :
         update_task_active(id, v) =>
           /\ UpdateTaskActive(tasks', id, v) = tasks'
           /\ Len(tasks') = Len(tasks)
           /\ \A i \in 1..Len(tasks) :
                tasks'[i] = IF tasks[i].id = id
                            THEN [tasks[i] EXCEPT !.is_active = IF v THEN 1 ELSE 0]
                            ELSE tasks[i]
           /\ (\A i \in 1..Len(tasks) : tasks[i].id # id) => tasks' = tasks
           /\ UNCHANGED <<diary_entries, points_log>>]_vars

\* A seeded task was switched off while the added task is on.
C7_Witness ==
    /\ Len(tasks) = 5
    /\ tasks[1].is_active = 0
    /\ tasks[5].is_active = 1

\* C8: once init_db ran, the four default tasks are the first four rows, the
\* number of task rows is 4 plus the number of add_task calls, and another
\* init_db call changes no row of any table.
C8_SeededOnce ==
    /\ [](IF schema
          THEN /\ Len(tasks) = 4 + addCalls
               /\ \A i \in 1..4 :
                    /\ tasks[i].id = i
                    /\ tasks[i].name = default_tasks[i].name
                    /\ tasks[i].point_value = default_tasks[i].point_value
               /\ InitDbTasks(tasks) = tasks
          ELSE tasks = <<>>)
    /\ [][init_db /\ schema => UNCHANGED tables]_vars

\* init_db ran, a task was added and a seeded task was switched off.
C8_Witness ==
    /\ schema
    /\ addCalls = 1
    /\ Len(tasks) = 5
    /\ tasks[1].is_active = 0

\* C9: no step changes or removes a row of points_log: the ledger of a
\* state is a prefix of the ledger of the next.
C9_LedgerAppendOnly == [][IsPrefix(points_log, points_log')]_vars

\* Points were earned for the first seeded task; after that the task was
\* switched off and a task was added, and the row still names it.
C9_Witness ==
    /\ Len(points_log) >= 1
    /\ points_log[1].action_type = "earn"
    /\ points_log[1].task_or_reason = default_tasks[1].name
    /\ points_log[1].points = 5
    /\ tasks[1].is_active = 0
    /\ addCalls = 1

\* C10: every row of points_log is an "earn" of at least 1 point that names
\* a task active when the row was written, or a "spend" of at most -1.
C10_RowsTypedAndActive ==
    \A i \in 1..Len(points_log) :
      \/ /\ points_log[i].action_type = "earn"
         /\ points_log[i].points >= 1
         /\ activeAtWrite[i]
      \/ /\ points_log[i].action_type = "spend"
         /\ points_log[i].points <= -1

====
